---- MODULE Spec2Model ----
(***************************************************************************)
(* Model of the proxmox-packer agent: the pipeline runner                  *)
(* (agent/orchestrator.py), the cluster specification model                *)
(* (agent/models.py) and the intent resolver (agent/intent_parser_llm.py). *)
(***************************************************************************)
EXTENDS Integers, Sequences, FiniteSets, TLC

VARIABLES
    \* ---- run_pipeline (orchestrator.py) ----
    pc,           \* position inside run_pipeline
    dry_run,      \* argument dry_run
    skip_packer,  \* argument skip_packer
    addons,       \* spec.addons of the ClusterSpec handed to run_pipeline
    addons_file,  \* whether ansible/addons.yml exists on disk
    results,      \* the list of StageResult being built
    events,       \* external effects so far: processes started, sleeps
    \* ---- _json_to_spec (intent_parser_llm.py) ----
    rpc,          \* position of the resolver
    data,         \* the backend's parsed object
    spec,         \* the ClusterSpec returned (NoSpec before / on failure)
    err,          \* the exception that left the resolver ("none" when none)
    \* ---- _extract_json_from_response / parse_intent ----
    xpc,          \* position of parse_intent
    body,         \* the text the backend produced, before any fencing
    reply,        \* the backend's raw reply: body, possibly fenced
    xdata,        \* result of _extract_json_from_response(reply)
    xspec,        \* what parse_intent returned (NoSpec when it raised)
    xerr,         \* the exception parse_intent raised ("none" when none)
    xctx,         \* argument proxmox_context of parse_intent (NoContext for None)
    xmsg,         \* the user message sent to the backend
    \* ProxmoxClient.discover
    dpc,          \* position in discover: "idle", "resources", "vms", "loop",
                  \* "collect", "returned", "raised"
    node_status,  \* what GET /nodes/{node}/status answers
    guest_list,   \* what GET /nodes/{node}/qemu answers; each entry carries
                  \* what the guest's agent answers
    ctx,          \* the ProxmoxContext being filled
    vms,          \* the list _get_vms is building
    di,           \* index of the entry _get_vms looks at next
    queries,      \* the requests sent so far
    derr,         \* the exception that left discover ("none" when none)
    \* cli._gather_credentials
    gpc,          \* "idle", "call" or "returned"
    cli_args,     \* args.proxmox_url, args.proxmox_token_id, args.proxmox_token_secret
    environ,      \* the three PROXMOX_API_ variables of os.environ
    tfvars,       \* terraform/terraform.tfvars: NoFile or its lines
    creds,        \* what _gather_credentials returned
    warned,       \* whether it printed that credentials were not found
    \* cli.cmd_create and cli.cmd_preview
    kpc,          \* "idle", "start", "confirm", "confirm2", "generate",
                  \* "apply", "exited"
    cmd,          \* args.command: "create" or "preview"
    kargs,        \* args: intent, yes, apply, dry_run, skip_packer
    backend,      \* what the language backend does when parse_intent asks it
    kspec,        \* the local spec of the command
    kerr,         \* what parse_intent raised ("none"; "not called" before)
    out,          \* what the command printed, one tag per message
    code,         \* the exit status (-1 while running)
    configs,      \* the calls of write_configs
    pipelines     \* the calls of run_pipeline

pvars == <<pc, dry_run, skip_packer, addons, addons_file, results, events>>
rvars == <<rpc, data, spec, err>>
xvars == <<xpc, body, reply, xdata, xspec, xerr, xctx, xmsg>>
dvars == <<dpc, node_status, guest_list, ctx, vms, di, queries, derr>>
cvars == <<gpc, cli_args, environ, tfvars, creds, warned>>
kvars == <<kpc, cmd, kargs, backend, kspec, kerr, out, code, configs, pipelines>>
vars  == <<pvars, rvars, xvars, dvars, cvars, kvars>>

----------------------------------------------------------------------------
(* Bounds *)

MaxElapsed == 1      \* elapsed seconds of a real process run: 0..MaxElapsed
MaxAddons  == 1      \* spec.addons has 0..MaxAddons entries
MaxCount   == 1      \* node counts the backend supplies: -1..MaxCount
MaxCores   == 3      \* cp_cores the backend supplies: 1..MaxCores
MaxList    == 2      \* the backend's addons list has 0..MaxList entries
MaxBody    == 4      \* characters of an unfenced backend reply: 0..MaxBody
MaxJunk    == 2      \* longest non-object text that is also tried fenced

----------------------------------------------------------------------------
(* orchestrator.py *)

Stage == {"packer", "terraform", "ansible", "addons"}

\* How one subprocess.run can end: exit code 0, non-zero exit code,
\* FileNotFoundError, any other exception.
Outcomes == {"ok", "exit", "notfound", "exc"}

StageResult(stage, success, duration_s, message) ==
    [stage |-> stage, success |-> success, duration_s |-> duration_s,
     message |-> message]

\* _run that forgets the dry_run test and always starts the process.
_run_nodry(stage_name, dry, o, elapsed) ==
    CASE o = "ok"       -> StageResult(stage_name, TRUE, elapsed, "Completed")
      [] o = "exit"     -> StageResult(stage_name, FALSE, elapsed, "Failed (exit code)")
      [] o = "notfound" -> StageResult(stage_name, FALSE, elapsed, "Command not found")
      [] OTHER          -> StageResult(stage_name, FALSE, elapsed, "exception")

\* _run(cmd, cwd, stage_name, dry_run) with the process ending as o
\* after elapsed seconds.
_run(stage_name, dry, o, elapsed) ==
    IF dry
    THEN StageResult(stage_name, TRUE, 0, "[DRY RUN] Would execute")
    ELSE CASE o = "ok"       -> StageResult(stage_name, TRUE, elapsed, "Completed")
           [] o = "exit"     -> StageResult(stage_name, FALSE, elapsed, "Failed (exit code)")
           [] o = "notfound" -> StageResult(stage_name, FALSE, elapsed, "Command not found")
           [] OTHER          -> StageResult(stage_name, FALSE, elapsed, "exception")

\* A process is started by _run only outside dry-run.
Started(name, dry) == IF dry THEN <<>> ELSE <<name>>

run_packer(dry, o, elapsed) == _run("packer", dry, o, elapsed)

\* run_terraform: init, plan, apply; the first failing command's result is
\* returned (non-dry-run), otherwise the result of apply.
run_terraform(dry, o1, o2, o3, elapsed) ==
    LET init_result == _run("terraform", dry, o1, elapsed)
        plan_result == _run("terraform", dry, o2, elapsed)
    IN  IF ~init_result.success /\ ~dry THEN init_result
        ELSE IF ~plan_result.success /\ ~dry THEN plan_result
        ELSE _run("terraform", dry, o3, elapsed)

\* The processes run_terraform starts.
TerraformStarted(dry, o1, o2) ==
    IF dry THEN <<>>
    ELSE IF o1 # "ok" THEN <<"terraform init">>
    ELSE IF o2 # "ok" THEN <<"terraform init", "terraform plan">>
    ELSE <<"terraform init", "terraform plan", "terraform apply">>

run_ansible(dry, o, elapsed) == _run("ansible", dry, o, elapsed)

run_addons(file_exists, dry, o, elapsed) ==
    IF ~file_exists
    THEN StageResult("addons", TRUE, 0, "No add-ons playbook found, skipping.")
    ELSE _run("addons", dry, o, elapsed)

PipelineInit ==
    /\ pc = "start"
    /\ dry_run \in BOOLEAN
    /\ skip_packer \in BOOLEAN
    /\ addons \in UNION {[1..n -> {"prometheus"}] : n \in 0..MaxAddons}
    /\ addons_file \in BOOLEAN
    /\ results = <<>>
    /\ events = <<>>

\* run_pipeline entry: results = []; if not skip_packer: ...
Enter ==
    /\ pc = "start"
    /\ pc' = IF skip_packer THEN "terraform" ELSE "packer"
    /\ UNCHANGED <<dry_run, skip_packer, addons, addons_file, results, events>>
    /\ UNCHANGED <<rvars, xvars, dvars, cvars, kvars>>

\* # Packer
PackerStage ==
    /\ pc = "packer"
    /\ \E o \in Outcomes, elapsed \in 0..MaxElapsed :
         LET result == run_packer(dry_run, o, elapsed) IN
         /\ results' = Append(results, result)
         /\ events' = events \o Started("packer build", dry_run)
         /\ pc' = IF ~result.success /\ ~dry_run THEN "done" ELSE "terraform"
    /\ UNCHANGED <<dry_run, skip_packer, addons, addons_file>>
    /\ UNCHANGED <<rvars, xvars, dvars, cvars, kvars>>

\* The Terraform step without its early return.
TerraformStage_noreturn ==
    /\ pc = "terraform"
    /\ \E o1 \in Outcomes, o2 \in Outcomes, o3 \in Outcomes, elapsed \in 0..MaxElapsed :
         LET result == run_terraform(dry_run, o1, o2, o3, elapsed) IN
         /\ results' = Append(results, result)
         /\ events' = events \o TerraformStarted(dry_run, o1, o2)
         /\ pc' = "wait"
    /\ UNCHANGED <<dry_run, skip_packer, addons, addons_file>>
    /\ UNCHANGED <<rvars, xvars, dvars, cvars, kvars>>

\* # Terraform
TerraformStage ==
    /\ pc = "terraform"
    /\ \E o1 \in Outcomes, o2 \in Outcomes, o3 \in Outcomes, elapsed \in 0..MaxElapsed :
         LET result == run_terraform(dry_run, o1, o2, o3, elapsed) IN
         /\ results' = Append(results, result)
         /\ events' = events \o TerraformStarted(dry_run, o1, o2)
         /\ pc' = IF ~result.success /\ ~dry_run THEN "done" ELSE "wait"
    /\ UNCHANGED <<dry_run, skip_packer, addons, addons_file>>
    /\ UNCHANGED <<rvars, xvars, dvars, cvars, kvars>>

\* The boot wait left out: configuration management starts right after apply.
BootWait_nosleep ==
    /\ pc = "wait"
    /\ IF ~dry_run
       THEN UNCHANGED <<events, results>>
       ELSE /\ results' = Append(results,
                   StageResult("terraform", TRUE, 0, "[DRY RUN] Would wait 60s for VMs to boot"))
            /\ UNCHANGED events
    /\ pc' = "ansible"
    /\ UNCHANGED <<dry_run, skip_packer, addons, addons_file>>
    /\ UNCHANGED <<rvars, xvars, dvars, cvars, kvars>>

\* # Wait for VMs to boot
BootWait ==
    /\ pc = "wait"
    /\ IF ~dry_run
       THEN /\ events' = Append(events, "sleep 60")
            /\ UNCHANGED results
       ELSE /\ results' = Append(results,
                   StageResult("terraform", TRUE, 0, "[DRY RUN] Would wait 60s for VMs to boot"))
            /\ UNCHANGED events
    /\ pc' = "ansible"
    /\ UNCHANGED <<dry_run, skip_packer, addons, addons_file>>
    /\ UNCHANGED <<rvars, xvars, dvars, cvars, kvars>>

\* # Ansible
AnsibleStage ==
    /\ pc = "ansible"
    /\ \E o \in Outcomes, elapsed \in 0..MaxElapsed :
         LET result == run_ansible(dry_run, o, elapsed) IN
         /\ results' = Append(results, result)
         /\ events' = events \o Started("ansible-playbook site.yml", dry_run)
         /\ pc' = IF ~result.success /\ ~dry_run THEN "done"
                  ELSE IF addons # <<>> THEN "addons" ELSE "done"
    /\ UNCHANGED <<dry_run, skip_packer, addons, addons_file>>
    /\ UNCHANGED <<rvars, xvars, dvars, cvars, kvars>>

\* # Add-ons
AddonsStage ==
    /\ pc = "addons"
    /\ \E o \in Outcomes, elapsed \in 0..MaxElapsed :
         LET result == run_addons(addons_file, dry_run, o, elapsed) IN
         /\ results' = Append(results, result)
         /\ events' = events \o
                IF addons_file THEN Started("ansible-playbook addons.yml", dry_run)
                ELSE <<>>
         /\ pc' = "done"
    /\ UNCHANGED <<dry_run, skip_packer, addons, addons_file>>
    /\ UNCHANGED <<rvars, xvars, dvars, cvars, kvars>>

PipelineNext ==
    \/ Enter
    \/ PackerStage
    \/ TerraformStage
    \/ BootWait
    \/ AnsibleStage
    \/ AddonsStage

----------------------------------------------------------------------------
(* models.py *)

NodeSpec(cores, memory_mb) ==
    [cores |-> cores, memory_mb |-> memory_mb, disk_size |-> "20G"]

\* ClusterSpec(): the dataclass defaults.
ClusterSpec ==
    [name |-> "k8s-cluster", vm_name_prefix |-> "k8s-node",
     control_plane_count |-> 1, worker_count |-> 2,
     control_plane_spec |-> NodeSpec(2, 4096),
     worker_spec |-> NodeSpec(2, 2048),
     k8s_version_minor |-> "1.31", k8s_version_full |-> "1.31.4-1.1",
     pod_network_cidr |-> "10.244.0.0/16", cni_plugin |-> "flannel",
     ip_start |-> 201, ip_prefix |-> "10.40.19.", ip_gateway |-> "10.40.19.254",
     dns_server |-> "10.40.2.1", network_bridge |-> "vmbr0",
     target_node |-> "pve1", template_id |-> 990, storage |-> "local-lvm",
     addons |-> <<>>, ssh_user |-> "ubuntu", ssh_password |-> "ubuntu"]

\* len(range(n)): no element when n <= 0.
RangeLen(n) == IF n > 0 THEN n ELSE 0

total_nodes(sp) == sp.control_plane_count + sp.worker_count

control_plane_ips(sp) ==
    [k \in 1..RangeLen(sp.control_plane_count) |->
        sp.ip_prefix \o ToString(sp.ip_start + (k - 1))]

worker_ips(sp) ==
    LET offset == sp.control_plane_count
    IN  [k \in 1..RangeLen(sp.worker_count) |->
            sp.ip_prefix \o ToString(sp.ip_start + offset + (k - 1))]

all_ips(sp) == control_plane_ips(sp) \o worker_ips(sp)

----------------------------------------------------------------------------
(* JSON values and the Python built-ins _json_to_spec applies to them *)

\* A JSON value; Absent marks a key the object does not have.
Absent   == [k |-> "absent", n |-> 0, s |-> "", l |-> <<>>]
Null     == [k |-> "null",   n |-> 0, s |-> "", l |-> <<>>]
JInt(n)  == [k |-> "int",    n |-> n, s |-> "", l |-> <<>>]
JStr(s)  == [k |-> "str",    n |-> 0, s |-> s,  l |-> <<>>]
JList(l) == [k |-> "list",   n |-> 0, s |-> "", l |-> l]

\* dict.get(key, default): the default only when the key is missing.
Get(d, key, default) == IF d[key].k = "absent" THEN default ELSE d[key]

\* dict.get(key) used as a condition: None, 0, "" and [] are false.
Truthy(v) ==
    CASE v.k = "int"  -> v.n # 0
      [] v.k = "str"  -> v.s # ""
      [] v.k = "list" -> v.l # <<>>
      [] OTHER        -> FALSE

\* int(v): the integer itself; TypeError for None and lists.
PyInt(v) ==
    CASE v.k = "int" -> [err |-> "none", n |-> v.n]
      [] v.k = "str" -> [err |-> "ValueError", n |-> 0]
      [] OTHER       -> [err |-> "TypeError", n |-> 0]

PyMax(a, b) == IF a >= b THEN a ELSE b

NoSpec == [name |-> "<no spec>"]

Keys == {"name", "worker_count", "control_plane_count", "worker_cores",
         "worker_memory_mb", "cp_cores", "cp_memory_mb", "ip_start",
         "cni_plugin", "k8s_version", "addons"}

NumericKeys == <<"worker_count", "control_plane_count", "worker_cores",
                 "worker_memory_mb", "cp_cores", "cp_memory_mb", "ip_start">>

EmptyObject == [key \in Keys |-> Absent]

----------------------------------------------------------------------------
(* intent_parser_llm.py: _json_to_spec *)

\* The defaults with the dataclass default (4096) used for cp_memory_mb.
GetDefault_model(key) ==
    CASE key = "worker_count"        -> 2
      [] key = "control_plane_count" -> 1
      [] key = "worker_cores"        -> 2
      [] key = "worker_memory_mb"    -> 2048
      [] key = "cp_cores"            -> 2
      [] key = "cp_memory_mb"        -> 4096
      [] key = "ip_start"            -> 201

\* The default handed to data.get for each numeric key.
GetDefault(key) ==
    CASE key = "worker_count"        -> 2
      [] key = "control_plane_count" -> 1
      [] key = "worker_cores"        -> 2
      [] key = "worker_memory_mb"    -> 2048
      [] key = "cp_cores"            -> 2
      [] key = "cp_memory_mb"        -> 2048
      [] key = "ip_start"            -> 201

\* int(data.get(key, default))
IntField(d, key) == PyInt(Get(d, key, JInt(GetDefault(key))))

\* The control-plane cores without the floor.
CpCores_nofloor(d) == IntField(d, "cp_cores").n

\* 4. Control plane resources (enforce minimums)
CpCores(d)    == PyMax(IntField(d, "cp_cores").n, 2)
CpMemoryMb(d) == PyMax(IntField(d, "cp_memory_mb").n, 2048)

\* The table without the synthesized fallback: an unknown minor is kept as is.
version_map_nofallback(minor) ==
    CASE minor = "1.31" -> "1.31.4-1.1"
      [] minor = "1.30" -> "1.30.8-1.1"
      [] minor = "1.29" -> "1.29.12-1.1"
      [] minor = "1.28" -> "1.28.15-1.1"
      [] OTHER          -> minor

version_map(minor) ==
    CASE minor = "1.31" -> "1.31.4-1.1"
      [] minor = "1.30" -> "1.30.8-1.1"
      [] minor = "1.29" -> "1.29.12-1.1"
      [] minor = "1.28" -> "1.28.15-1.1"
      [] OTHER          -> minor \o ".0-1.1"

\* The CNI step without the calico CIDR.
ApplyCni_nocidr(sp, d) ==
    IF Truthy(Get(d, "cni_plugin", Null))
    THEN [sp EXCEPT !.cni_plugin = d["cni_plugin"].s]
    ELSE sp

\* # 5. CNI
ApplyCni(sp, d) ==
    IF Truthy(Get(d, "cni_plugin", Null))
    THEN [sp EXCEPT !.cni_plugin = d["cni_plugin"].s,
                    !.pod_network_cidr =
                        IF d["cni_plugin"].s = "calico"
                        THEN "192.168.0.0/16" ELSE @]
    ELSE sp

\* The add-ons step keeping each identifier once.
RECURSIVE Dedupe(_)
Dedupe(l) ==
    IF l = <<>> THEN <<>>
    ELSE LET front == Dedupe(SubSeq(l, 1, Len(l) - 1))
         IN  IF \E i \in 1..Len(front) : front[i] = l[Len(l)]
             THEN front ELSE Append(front, l[Len(l)])

ApplyAddons_dedupe(sp, d) ==
    IF Truthy(Get(d, "addons", Null))
    THEN [sp EXCEPT !.addons = Dedupe(d["addons"].l)]
    ELSE sp

\* # 7. Add-ons (LLM provides the full list)
ApplyAddons(sp, d) ==
    IF Truthy(Get(d, "addons", Null))
    THEN [sp EXCEPT !.addons = d["addons"].l]
    ELSE sp

\* The conversions of steps 2-5 in the order the code evaluates them; the
\* first one that raises ends the call.
FirstError(d) ==
    LET bad == {i \in 1..Len(NumericKeys) : IntField(d, NumericKeys[i]).err # "none"}
    IN  IF bad = {} THEN "none"
        ELSE IntField(d, NumericKeys[CHOOSE i \in bad : \A j \in bad : i <= j]).err

_json_to_spec(d) ==
    LET s1 == IF Truthy(Get(d, "name", Null))
              THEN [ClusterSpec EXCEPT !.name = d["name"].s,
                                       !.vm_name_prefix = d["name"].s \o "-node"]
              ELSE ClusterSpec
        s2 == [s1 EXCEPT !.worker_count = IntField(d, "worker_count").n,
                         !.control_plane_count = IntField(d, "control_plane_count").n,
                         !.worker_spec.cores = IntField(d, "worker_cores").n,
                         !.worker_spec.memory_mb = IntField(d, "worker_memory_mb").n,
                         !.control_plane_spec.cores = CpCores(d),
                         !.control_plane_spec.memory_mb = CpMemoryMb(d),
                         !.ip_start = IntField(d, "ip_start").n]
        s3 == ApplyCni(s2, d)
        s4 == IF Truthy(Get(d, "k8s_version", Null))
              THEN [s3 EXCEPT !.k8s_version_minor = d["k8s_version"].s,
                              !.k8s_version_full = version_map(d["k8s_version"].s)]
              ELSE s3
        s5 == ApplyAddons(s4, d)
    IN  IF FirstError(d) # "none"
        THEN [err |-> FirstError(d), spec |-> NoSpec]
        ELSE [err |-> "none", spec |-> s5]

----------------------------------------------------------------------------
(* The backend objects _json_to_spec is applied to *)

CountValues       == {Absent, Null} \cup {JInt(n) : n \in (-1)..MaxCount}
WorkerCoresValues == {Absent, Null, JInt(4)}
WorkerMemValues   == {Absent, Null, JInt(1024)}
CpCoresValues     == {Absent, Null} \cup {JInt(n) : n \in 1..MaxCores}
CpMemValues       == {Absent, Null, JInt(1024), JInt(2048), JInt(8192)}
IpStartValues     == {Absent, Null, JInt(253)}
NameValues        == {Absent, JStr("k8s-prod")}
CniValues         == {Absent, Null} \cup
                     {JStr(c) : c \in {"", "flannel", "calico", "cilium", "weave"}}
VersionValues     == {Absent, Null} \cup
                     {JStr(v) : v \in {"", "1.31", "1.30", "1.29", "1.28", "1.99"}}
AddonValues       == {Absent} \cup
                     {JList(l) : l \in UNION {[1..n -> {"prometheus", "grafana"}] : n \in 0..MaxList}}

Object(nm, wc, cpc, wcores, wmem, cpcores, cpmem, ip, cni, ver, ad) ==
    [key \in Keys |->
        CASE key = "name"                -> nm
          [] key = "worker_count"        -> wc
          [] key = "control_plane_count" -> cpc
          [] key = "worker_cores"        -> wcores
          [] key = "worker_memory_mb"    -> wmem
          [] key = "cp_cores"            -> cpcores
          [] key = "cp_memory_mb"        -> cpmem
          [] key = "ip_start"            -> ip
          [] key = "cni_plugin"          -> cni
          [] key = "k8s_version"         -> ver
          [] key = "addons"              -> ad]

\* Every combination of the numeric fields, the other fields missing.
NumericObjects ==
    {Object(Absent, wc, cpc, wcores, wmem, cpcores, cpmem, ip, Absent, Absent, Absent) :
        wc \in CountValues, cpc \in CountValues, wcores \in WorkerCoresValues,
        wmem \in WorkerMemValues, cpcores \in CpCoresValues,
        cpmem \in CpMemValues, ip \in IpStartValues}

\* Every combination of the other fields, the numeric fields all missing or
\* all supplied.
TextObjects ==
    {Object(nm, Absent, Absent, Absent, Absent, Absent, Absent, Absent, cni, ver, ad) :
        nm \in NameValues, cni \in CniValues, ver \in VersionValues, ad \in AddonValues}
    \cup
    {Object(nm, JInt(MaxCount), JInt(1), JInt(4), JInt(1024), JInt(MaxCores),
            JInt(8192), JInt(253), cni, ver, ad) :
        nm \in NameValues, cni \in CniValues, ver \in VersionValues, ad \in AddonValues}

BackendObjects == NumericObjects \cup TextObjects

----------------------------------------------------------------------------
(* The resolver as a state machine *)

PipelineIdle ==
    /\ pc = "idle"
    /\ dry_run = FALSE
    /\ skip_packer = TRUE
    /\ addons = <<>>
    /\ addons_file = FALSE
    /\ results = <<>>
    /\ events = <<>>

ResolveIdle ==
    /\ rpc = "idle"
    /\ data = EmptyObject
    /\ spec = NoSpec
    /\ err = "none"

ResolveInit ==
    /\ rpc = "call"
    /\ data \in BackendObjects
    /\ spec = NoSpec
    /\ err = "none"

\* spec = _json_to_spec(data)
JsonToSpec ==
    /\ rpc = "call"
    /\ LET r == _json_to_spec(data) IN
         /\ spec' = r.spec
         /\ err' = r.err
         /\ rpc' = IF r.err = "none" THEN "returned" ELSE "raised"
    /\ UNCHANGED data
    /\ UNCHANGED <<pvars, xvars, dvars, cvars, kvars>>

ResolveNext == JsonToSpec

----------------------------------------------------------------------------
(* Text: a reply is a sequence of characters.  A member of an object       *)
(* ("key": value) is kept as one element: it starts with a quote, so no    *)
(* step of the extraction can split it.                                    *)

BT     == "<backtick>"     \* the backtick character
LB     == "{"
RB     == "}"
CM     == ","
SP     == " "
NL     == "\n"
WordCh == "j"                \* a character matched by \w
Member == "\"cp_cores\":1"   \* the text of one member
MemberIp == "\"ip_start\":205" \* the text of another member
Members  == {Member, MemberIp}

Chars      == {BT, LB, RB, CM, SP, NL, WordCh, Member, MemberIp}
Whitespace == {SP, NL}       \* what str.strip() and \s match
WordChars  == {WordCh}

Least(S) == CHOOSE i \in S : \A j \in S : i <= j
Most(S)  == CHOOSE i \in S : \A j \in S : i >= j

\* First position >= i of t that holds no character of class S
\* (Len(t) + 1 when there is none).
Skip(t, i, S) == Least({j \in i..(Len(t) + 1) : j = Len(t) + 1 \/ t[j] \notin S})

\* Last position <= i of t that holds no character of class S (0 when none).
SkipBack(t, i, S) == Most({j \in 0..i : j = 0 \/ t[j] \notin S})

\* str.strip()
Strip(t) ==
    LET a == Skip(t, 1, Whitespace)
        b == SkipBack(t, Len(t), Whitespace)
    IN  SubSeq(t, a, b)

\* str.startswith(fence), the fence being three backticks
StartsWithFence(t) == Len(t) >= 3 /\ SubSeq(t, 1, 3) = <<BT, BT, BT>>

\* The opening-fence pattern with \S* where the code has \w*: the language
\* tag runs up to the next whitespace.
RemoveOpeningFence_nonspace(t) ==
    IF Len(t) >= 3 /\ SubSeq(t, 1, 3) = <<BT, BT, BT>>
    THEN LET a == Skip(t, 4, Chars \ Whitespace)
             b == Skip(t, a, Whitespace)
         IN  SubSeq(t, b, Len(t))
    ELSE t

\* re.sub of the opening-fence pattern (start of text, fence, \w*, \s*, \n?):
\* the fence, a greedy run of word characters, a greedy run of whitespace
\* (which takes the newline too).
RemoveOpeningFence(t) ==
    IF StartsWithFence(t)
    THEN LET a == Skip(t, 4, WordChars)
             b == Skip(t, a, Whitespace)
         IN  SubSeq(t, b, Len(t))
    ELSE t

\* Whether the closing-fence pattern (\n?, fence, \s*, end of text) matches
\* t from position i on.
ClosingFenceAt(t, i) ==
    LET k == IF t[i] = NL THEN i + 1 ELSE i
    IN  /\ k + 2 <= Len(t)
        /\ SubSeq(t, k, k + 2) = <<BT, BT, BT>>
        /\ Skip(t, k + 3, Whitespace) = Len(t) + 1

\* re.sub of the closing-fence pattern: the leftmost match is removed.
RemoveClosingFence(t) ==
    LET at == {i \in 1..Len(t) : ClosingFenceAt(t, i)}
    IN  IF at = {} THEN t ELSE SubSeq(t, 1, Least(at) - 1)

\* str.find / str.rfind: a 0-based index, -1 when the character is missing.
Find(t, c) ==
    LET at == {i \in 1..Len(t) : t[i] = c}
    IN  IF at = {} THEN -1 ELSE Least(at) - 1

RFind(t, c) ==
    LET at == {i \in 1..Len(t) : t[i] = c}
    IN  IF at = {} THEN -1 ELSE Most(at) - 1

\* text[a:b] for 0 <= a
Slice(t, a, b) == SubSeq(t, a + 1, IF b < Len(t) THEN b ELSE Len(t))

RECURSIVE Without(_, _)
Without(t, S) ==
    IF t = <<>> THEN <<>>
    ELSE IF Head(t) \in S THEN Without(Tail(t), S)
    ELSE <<Head(t)>> \o Without(Tail(t), S)

\* json.loads of a text: an object is "{", members separated by ",", "}",
\* with whitespace allowed between the tokens.  The result lists the members.
JsonLoads(t) ==
    LET inner == SubSeq(t, 2, Len(t) - 1)
        core  == Without(inner, Whitespace)
        ok    == /\ Len(t) >= 2
                 /\ t[1] = LB
                 /\ t[Len(t)] = RB
                 /\ \/ core = <<>>
                    \/ /\ Len(core) % 2 = 1
                       /\ \A i \in 1..Len(core) :
                            IF i % 2 = 1 THEN core[i] \in Members ELSE core[i] = CM
    IN  IF ok
        THEN [err |-> "none",
              members |-> [i \in 1..((Len(core) + 1) \div 2) |-> core[2 * i - 1]]]
        ELSE [err |-> "JSONDecodeError", members |-> <<>>]

\* An extraction that answers the empty object where the code raises.
_extract_json_or_empty(text0) ==
    LET t1    == Strip(text0)
        text  == IF StartsWithFence(t1)
                 THEN Strip(RemoveClosingFence(RemoveOpeningFence(t1)))
                 ELSE t1
        start == Find(text, LB)
        end   == RFind(text, RB)
        r     == JsonLoads(Slice(text, start, end + 1))
    IN  IF start = -1 \/ end = -1 \/ r.err # "none"
        THEN [err |-> "none", members |-> <<>>]
        ELSE r

_extract_json_from_response(text0) ==
    LET t1    == Strip(text0)
        text  == IF StartsWithFence(t1)
                 THEN Strip(RemoveClosingFence(RemoveOpeningFence(t1)))
                 ELSE t1
        start == Find(text, LB)
        end   == RFind(text, RB)
    IN  IF start = -1 \/ end = -1
        THEN [err |-> "ValueError", members |-> <<>>]
        ELSE JsonLoads(Slice(text, start, end + 1))

\* The dict json.loads builds from the members: a later member with the
\* same key replaces an earlier one.
DictOf(members) ==
    LET has(m) == \E i \in 1..Len(members) : members[i] = m
    IN  [EmptyObject EXCEPT
            !["cp_cores"] = IF has(Member) THEN JInt(1) ELSE @,
            !["ip_start"] = IF has(MemberIp) THEN JInt(205) ELSE @]

----------------------------------------------------------------------------
(* proxmox_client.py: the data classes *)

VMInfo(vmid, name, status, cores, memory_mb, ips) ==
    [vmid |-> vmid, name |-> name, status |-> status, cores |-> cores,
     memory_mb |-> memory_mb, ips |-> ips]

\* NodeResources(): all zero.
NodeResources ==
    [cpu_total |-> 0, cpu_used |-> 0, memory_total_mb |-> 0,
     memory_used_mb |-> 0, storage_total_gb |-> 0, storage_used_gb |-> 0]

\* ProxmoxContext(node_name=...)
ProxmoxContext(node_name) ==
    [node_name |-> node_name, resources |-> NodeResources,
     existing_vms |-> <<>>, used_ips |-> <<>>]

\* proxmox_context = None
NoContext == [node_name |-> "<None>"]

----------------------------------------------------------------------------
(* parse_intent *)

\* A host with one core and a guest on 10.40.19.205.
BusyContext ==
    [node_name |-> "pve1",
     resources |-> [NodeResources EXCEPT !.cpu_total = 1, !.memory_total_mb = 1024],
     existing_vms |-> <<VMInfo(100, "db", "running", 1, 512, <<"10.40.19.205">>)>>,
     used_ips |-> <<"10.40.19.205">>]

Contexts == {NoContext, ProxmoxContext("pve1"), BusyContext}

Intent == "dev cluster"

\* The user message: the request, behind the rendered context when one is
\* given.
user_message(text, proxmox_context) ==
    IF proxmox_context # NoContext
    THEN [environment |-> proxmox_context, request |-> text]
    ELSE [environment |-> NoContext, request |-> text]

\* A resolver that moves ip_start past the addresses the context reports.
parse_intent_aware(text, proxmox_context, rep) ==
    LET x == _extract_json_from_response(rep)
        r == _json_to_spec(DictOf(x.members))
        used(n) == proxmox_context # NoContext /\ \E i \in 1..Len(proxmox_context.used_ips) :
                        proxmox_context.used_ips[i] = r.spec.ip_prefix \o ToString(n)
    IN  [msg  |-> user_message(text, proxmox_context),
         data |-> x,
         err  |-> IF x.err # "none" THEN x.err ELSE r.err,
         spec |-> IF x.err # "none" \/ r.err # "none" THEN NoSpec
                  ELSE IF used(r.spec.ip_start)
                       THEN [r.spec EXCEPT !.ip_start = @ + 1]
                       ELSE r.spec]

\* parse_intent once client.chat has returned rep: the message that was
\* sent, the extracted object, and the spec or the exception.
parse_intent(text, proxmox_context, rep) ==
    LET x == _extract_json_from_response(rep)
        r == _json_to_spec(DictOf(x.members))
    IN  [msg  |-> user_message(text, proxmox_context),
         data |-> x,
         err  |-> IF x.err # "none" THEN x.err ELSE r.err,
         spec |-> IF x.err # "none" THEN NoSpec ELSE r.spec]

Bodies == UNION {[1..n -> Chars] : n \in 0..MaxBody}

IsObjectText(t) == JsonLoads(t).err = "none"

\* A reply wrapped in fence markers.
Wrap(t, lead, tag, sep, csep, trail) ==
    lead \o <<BT, BT, BT>> \o tag \o sep \o t \o csep \o <<BT, BT, BT>> \o trail

Fenced(t) ==
    {Wrap(t, lead, tag, sep, csep, trail) :
        lead \in {<<>>, <<SP>>}, tag \in {<<>>, <<WordCh>>},
        sep \in {<<>>, <<NL>>}, csep \in {<<>>, <<NL>>},
        trail \in {<<>>, <<NL>>}}

NoData == [err |-> "not called", members |-> <<>>]

ExtractIdle ==
    /\ xpc = "idle"
    /\ body = <<>>
    /\ reply = <<>>
    /\ xdata = NoData
    /\ xspec = NoSpec
    /\ xerr = "none"
    /\ xctx = NoContext
    /\ xmsg = user_message("", NoContext)

ExtractInit ==
    /\ xpc = "call"
    /\ body \in Bodies
    /\ reply \in {body} \cup
                 (IF IsObjectText(body) \/ Len(body) <= MaxJunk
                  THEN Fenced(body) ELSE {})
    /\ xdata = NoData
    /\ xspec = NoSpec
    /\ xerr = "none"
    /\ xctx \in Contexts
    /\ xmsg = user_message("", NoContext)

\* parse_intent: the availability probe fails
Unavailable ==
    /\ xpc = "call"
    /\ xpc' = "raised"
    /\ xerr' = "OllamaError"
    /\ UNCHANGED <<body, reply, xdata, xspec, xctx, xmsg>>
    /\ UNCHANGED <<pvars, rvars, dvars, cvars, kvars>>

\* parse_intent: the probe succeeds and client.chat raises
ChatFails ==
    /\ xpc = "call"
    /\ xpc' = "raised"
    /\ xerr' = "OllamaError"
    /\ UNCHANGED <<body, reply, xdata, xspec, xctx, xmsg>>
    /\ UNCHANGED <<pvars, rvars, dvars, cvars, kvars>>

\* parse_intent: client.chat returns the reply
ParseIntent ==
    /\ xpc = "call"
    /\ LET r == parse_intent(Intent, xctx, reply)
       IN  /\ xmsg' = r.msg
           /\ xdata' = r.data
           /\ xerr' = r.err
           /\ xspec' = r.spec
           /\ xpc' = IF r.err = "none" THEN "returned" ELSE "raised"
    /\ UNCHANGED <<body, reply, xctx>>
    /\ UNCHANGED <<pvars, rvars, dvars, cvars, kvars>>

ExtractNext ==
    \/ Unavailable
    \/ ChatFails
    \/ ParseIntent

----------------------------------------------------------------------------
(* proxmox_client.py: ProxmoxClient.discover *)

MaxGuests == 2     \* entries in the guest list

\* A call that raised, and one that returned v
Raised    == [ok |-> FALSE]
Return(v) == [ok |-> TRUE, val |-> v]

\* _get returning the parsed body d (Raised: urllib errors, bad JSON)
Http(d) == [ok |-> TRUE, data |-> d]

\* d.get(key, default) on the fields of a status or of an entry
Field(v, default) == IF v = Absent THEN default ELSE v.n

_get_node_resources(resp) ==
    IF ~resp.ok THEN Raised
    ELSE LET status == resp.data
         IN  Return([cpu_total        |-> Field(status.cpus, 0),
                     cpu_used         |-> Field(status.cpu, 0),
                     memory_total_mb  |-> Field(status.mem_total, 0) \div (1024 * 1024),
                     memory_used_mb   |-> Field(status.mem_used, 0) \div (1024 * 1024),
                     storage_total_gb |-> Field(status.root_total, 0) \div (1024 * 1024 * 1024),
                     storage_used_gb  |-> Field(status.root_used, 0) \div (1024 * 1024 * 1024)])

RECURSIVE InterfaceIps(_)
InterfaceIps(ifaces) ==
    LET addrs   == Head(ifaces).addrs
        keep(a) == /\ a.type = "ipv4"
                   /\ a.ip # ""
                   /\ ~(Len(a.ip) >= 4 /\ SubSeq(a.ip, 1, 4) = "127.")
        kept    == SelectSeq(addrs, keep)
    IN  IF ifaces = <<>> THEN <<>>
        ELSE (IF Head(ifaces).name = "lo" THEN <<>>
              ELSE [i \in 1..Len(kept) |-> kept[i].ip])
             \o InterfaceIps(Tail(ifaces))

_get_vm_ips(resp) ==
    IF ~resp.ok THEN Raised ELSE Return(InterfaceIps(resp.data))

\* The entry of the guest at position j of the list, with what the agent of
\* the guest answers: no agent, or its interfaces.
Entries(j) ==
    LET lo   == [name |-> "lo", addrs |-> <<[type |-> "ipv4", ip |-> "127.0.0.1"]>>]
        eth0 == [name |-> "eth0",
                 addrs |-> <<[type |-> "ipv4", ip |-> "127.0.1.1"],
                             [type |-> "ipv6", ip |-> "fe80::1"],
                             [type |-> "ipv4", ip |-> ""],
                             [type |-> "ipv4", ip |-> "10.40.19.205"]>>]
    IN  { [vmid |-> JInt(99 + j), name |-> Absent, template |-> t,
           status |-> st, cpus |-> JInt(2), maxmem |-> JInt(512 * 1024 * 1024),
           agent |-> a] :
            t \in {Absent, JInt(1)},
            st \in {Absent, JStr("running"), JStr("stopped")},
            a \in {Raised, Http(<<lo>>), Http(<<lo, eth0>>)} }

GuestLists ==
    UNION { {q \in [1..n -> UNION {Entries(j) : j \in 1..n}] :
                \A j \in 1..n : q[j] \in Entries(j)} : n \in 0..MaxGuests }

Request(path, vmid) == [path |-> path, vmid |-> vmid]

\* The VMInfo _get_vms makes of an entry, before it asks for addresses.
VmOf(entry) ==
    LET vmid == Field(entry.vmid, 0)
    IN  VMInfo(vmid,
               IF entry.name = Absent THEN "vm-" \o ToString(vmid) ELSE entry.name.s,
               IF entry.status = Absent THEN "unknown" ELSE entry.status.s,
               Field(entry.cpus, 0),
               Field(entry.maxmem, 0) \div (1024 * 1024),
               <<>>)

RECURSIVE Extend(_)
\* ctx.used_ips after the loop of discover over a list of guests
Extend(guests) ==
    IF guests = <<>> THEN <<>> ELSE Head(guests).ips \o Extend(Tail(guests))

DiscoverIdle ==
    /\ dpc = "idle"
    /\ node_status = Raised
    /\ guest_list = Raised
    /\ ctx = ProxmoxContext("pve1")
    /\ vms = <<>>
    /\ di = 0
    /\ queries = <<>>
    /\ derr = "none"

DiscoverInit ==
    /\ dpc = "resources"
    \* the status reply: none, nothing in it, or a host of 4 CPUs with
    \* 512 MiB of memory and a root file system of 1 GiB
    /\ node_status \in {Raised} \cup {Http(b) : b \in
       { [cpus |-> Absent, cpu |-> Absent, mem_total |-> Absent,
              mem_used |-> Absent, root_total |-> Absent, root_used |-> Absent],
             [cpus |-> JInt(4), cpu |-> JInt(1), mem_total |-> JInt(512 * 1024 * 1024),
              mem_used |-> JInt(256 * 1024 * 1024), root_total |-> JInt(1024 * 1024 * 1024),
              root_used |-> JInt(0)] }}
    /\ guest_list \in {Raised} \cup {Http(q) : q \in GuestLists}
    /\ ctx = ProxmoxContext("pve1")
    /\ vms = <<>>
    /\ di = 0
    /\ queries = <<>>
    /\ derr = "none"

\* discover without the try around the resource query
GetResources_notry ==
    /\ dpc = "resources"
    /\ queries' = Append(queries, Request("status", 0))
    /\ LET r == _get_node_resources(node_status)
       IN  IF r.ok
           THEN ctx' = [ctx EXCEPT !.resources = r.val] /\ dpc' = "vms"
                /\ derr' = derr
           ELSE ctx' = ctx /\ dpc' = "raised" /\ derr' = "Exception"
    /\ UNCHANGED <<node_status, guest_list, vms, di>>
    /\ UNCHANGED <<pvars, rvars, xvars, cvars, kvars>>

\* discover, step 1
GetResources ==
    /\ dpc = "resources"
    /\ queries' = Append(queries, Request("status", 0))
    /\ LET r == _get_node_resources(node_status)
       IN  ctx' = IF r.ok THEN [ctx EXCEPT !.resources = r.val] ELSE ctx
    /\ dpc' = "vms"
    /\ UNCHANGED <<node_status, guest_list, vms, di, derr>>
    /\ UNCHANGED <<pvars, rvars, xvars, cvars, kvars>>

\* discover, step 2: _get_vms asks for the list
GetVms ==
    /\ dpc = "vms"
    /\ queries' = Append(queries, Request("qemu", 0))
    /\ IF guest_list.ok
       THEN dpc' = "loop" /\ di' = 1 /\ vms' = <<>>
       ELSE dpc' = "collect" /\ UNCHANGED <<di, vms>>
    /\ UNCHANGED <<node_status, guest_list, ctx, derr>>
    /\ UNCHANGED <<pvars, rvars, xvars, cvars, kvars>>

\* _get_vms dropping a guest whose agent does not answer
GuestStep_dropfailed ==
    /\ dpc = "loop"
    /\ di <= Len(guest_list.data)
    /\ LET entry == guest_list.data[di]
           vm    == VmOf(entry)
           r     == _get_vm_ips(entry.agent)
       IN  IF Field(entry.template, 0) = 1
           THEN UNCHANGED <<vms, queries>>
           ELSE IF vm.status = "running"
                THEN /\ queries' = Append(queries, Request("agent", vm.vmid))
                     /\ vms' = IF r.ok THEN Append(vms, [vm EXCEPT !.ips = r.val])
                               ELSE vms
                ELSE /\ vms' = Append(vms, vm)
                     /\ UNCHANGED queries
    /\ di' = di + 1
    /\ UNCHANGED <<dpc, node_status, guest_list, ctx, derr>>
    /\ UNCHANGED <<pvars, rvars, xvars, cvars, kvars>>

\* _get_vms, one turn of the loop over the entries
GuestStep ==
    /\ dpc = "loop"
    /\ di <= Len(guest_list.data)
    /\ LET entry == guest_list.data[di]
           vm    == VmOf(entry)
           r     == _get_vm_ips(entry.agent)
       IN  IF Field(entry.template, 0) = 1
           THEN UNCHANGED <<vms, queries>>
           ELSE IF vm.status = "running"
                THEN /\ queries' = Append(queries, Request("agent", vm.vmid))
                     /\ vms' = Append(vms, IF r.ok THEN [vm EXCEPT !.ips = r.val]
                                           ELSE vm)
                ELSE /\ vms' = Append(vms, vm)
                     /\ UNCHANGED queries
    /\ di' = di + 1
    /\ UNCHANGED <<dpc, node_status, guest_list, ctx, derr>>
    /\ UNCHANGED <<pvars, rvars, xvars, cvars, kvars>>

\* _get_vms returns and discover keeps the list
ReturnVms ==
    /\ dpc = "loop"
    /\ di > Len(guest_list.data)
    /\ ctx' = [ctx EXCEPT !.existing_vms = vms]
    /\ dpc' = "collect"
    /\ UNCHANGED <<node_status, guest_list, vms, di, queries, derr>>
    /\ UNCHANGED <<pvars, rvars, xvars, cvars, kvars>>

\* discover, step 3, and its return
Collect ==
    /\ dpc = "collect"
    /\ ctx' = [ctx EXCEPT !.used_ips = @ \o Extend(ctx.existing_vms)]
    /\ dpc' = "returned"
    /\ UNCHANGED <<node_status, guest_list, vms, di, queries, derr>>
    /\ UNCHANGED <<pvars, rvars, xvars, cvars, kvars>>

DiscoverNext ==
    \/ GetResources
    \/ GetVms
    \/ GuestStep
    \/ ReturnVms
    \/ Collect

----------------------------------------------------------------------------
(* cli.py: _resolve_proxmox_creds and _gather_credentials *)

MaxLines == 3      \* lines of terraform.tfvars

CredKeys == {"api_url", "token_id", "token_secret"}

\* The terraform variable of each key.
CredVar ==
    [api_url      |-> "proxmox_api_url",
     token_id     |-> "proxmox_api_token_id",
     token_secret |-> "proxmox_api_token_secret"]

\* No terraform.tfvars. A file is [exists |-> TRUE, lines |-> ...], a line
\* var = "value" of it being [var |-> ..., value |-> ...].
NoFile == [exists |-> FALSE, lines |-> <<>>]

\* re.search(^var\s*=\s*"([^"]*)", content, re.MULTILINE): the first line
\* that assigns var; Null when there is none.
Search(var, lines) ==
    LET hits == {i \in 1..Len(lines) : lines[i].var = var}
    IN  IF hits = {} THEN Null ELSE JStr(lines[Least(hits)].value)

\* The three values when args and the environment give all of them, else the
\* three values of terraform.tfvars when it assigns all of them, else None.
_resolve_proxmox_creds(a, e, f) ==
    LET given == [k \in CredKeys |-> IF Truthy(a[k]) THEN a[k] ELSE e[k]]
        found == {k \in CredKeys : Search(CredVar[k], f.lines) # Null}
    IN  IF \A k \in CredKeys : Truthy(given[k])
        THEN given
        ELSE IF f.exists /\ found = CredKeys
             THEN [k \in CredKeys |-> Search(CredVar[k], f.lines)]
             ELSE Null

TfFiles ==
    LET line(var, value) == [var |-> var, value |-> value]
        lines == { line(CredVar["api_url"], "F"), line(CredVar["api_url"], "G"),
                   line(CredVar["token_id"], "F"),
                   line(CredVar["token_secret"], "F"),
                   line(CredVar["token_secret"], "") }
    IN  {NoFile} \cup UNION { {[exists |-> TRUE, lines |-> q] : q \in [1..n -> lines]} :
                                n \in 0..MaxLines }

CredsIdle ==
    /\ gpc = "idle"
    /\ cli_args = [k \in CredKeys |-> Null]
    /\ environ = [k \in CredKeys |-> Null]
    /\ tfvars = NoFile
    /\ creds = Null
    /\ warned = FALSE

CredsInit ==
    /\ gpc = "call"
    /\ cli_args \in [api_url : {Null, JStr(""), JStr("A")},
                     token_id : {Null, JStr("A")},
                     token_secret : {Null, JStr("A")}]
    /\ environ \in [CredKeys -> {Null, JStr("E")}]
    /\ tfvars \in TfFiles
    /\ creds = Null
    /\ warned = FALSE

_gather_credentials ==
    /\ gpc = "call"
    /\ creds' = _resolve_proxmox_creds(cli_args, environ, tfvars)
    /\ warned' = (creds' = Null /\ ~tfvars.exists)
    /\ gpc' = "returned"
    /\ UNCHANGED <<cli_args, environ, tfvars>>
    /\ UNCHANGED <<pvars, rvars, xvars, dvars, kvars>>

----------------------------------------------------------------------------
(* cli.py: what it does to the lines it reads *)

\* str.strip() of a typed line (blanks)
RECURSIVE LStrip(_)
LStrip(str) ==
    IF Len(str) > 0 /\ SubSeq(str, 1, 1) = " "
    THEN LStrip(SubSeq(str, 2, Len(str))) ELSE str

RECURSIVE RStrip(_)
RStrip(str) ==
    IF Len(str) > 0 /\ SubSeq(str, Len(str), Len(str)) = " "
    THEN RStrip(SubSeq(str, 1, Len(str) - 1)) ELSE str

StrStrip(str) == RStrip(LStrip(str))

\* str.lower()
RECURSIVE Lower(_)
Lower(str) ==
    LET upper == "ABCDEFGHIJKLMNOPQRSTUVWXYZ"
        lower == "abcdefghijklmnopqrstuvwxyz"
        c     == SubSeq(str, 1, 1)
        hits  == {i \in 1..Len(upper) : SubSeq(upper, i, i) = c}
    IN  IF Len(str) = 0 THEN ""
        ELSE (IF hits = {} THEN c ELSE SubSeq(lower, Least(hits), Least(hits)))
             \o Lower(SubSeq(str, 2, Len(str)))

\* The number the decimal digits of str write after those of acc.
RECURSIVE Decimal(_, _)
Decimal(str, acc) ==
    LET digits == "0123456789"
        hits   == {i \in 1..Len(digits) : SubSeq(digits, i, i) = SubSeq(str, 1, 1)}
    IN  IF Len(str) = 0 THEN [ok |-> TRUE, n |-> acc]
        ELSE IF hits = {} THEN [ok |-> FALSE, n |-> 0]
        ELSE Decimal(SubSeq(str, 2, Len(str)), 10 * acc + (Least(hits) - 1))

\* int(val) of a stripped line: an optional sign and decimal digits; anything
\* else raises ValueError (ok = FALSE).
StrToInt(str) ==
    LET signed == Len(str) > 0 /\ SubSeq(str, 1, 1) \in {"+", "-"}
        digits == IF signed THEN SubSeq(str, 2, Len(str)) ELSE str
        r      == Decimal(digits, 0)
    IN  IF Len(digits) = 0 \/ ~r.ok THEN [ok |-> FALSE, n |-> 0]
        ELSE [ok |-> TRUE,
              n  |-> IF signed /\ SubSeq(str, 1, 1) = "-" THEN 0 - r.n ELSE r.n]

\* val.split(","), piece being the part read since the last comma
RECURSIVE SplitComma(_, _)
SplitComma(str, piece) ==
    IF Len(str) = 0 THEN <<piece>>
    ELSE IF SubSeq(str, 1, 1) = ","
         THEN <<piece>> \o SplitComma(SubSeq(str, 2, Len(str)), "")
         ELSE SplitComma(SubSeq(str, 2, Len(str)), piece \o SubSeq(str, 1, 1))

----------------------------------------------------------------------------
(* cli.py: _interactive_edit *)

IntPrompts == {"workers", "control_planes", "worker_cores", "worker_memory",
               "cp_cores", "cp_memory", "ip_start"}

\* The spec after the eleven prompts, ans being the lines typed; ValueError
\* when a line typed for a number is not one.
_interactive_edit(sp, ans) ==
    LET val(k)  == StrStrip(ans[k])
        num(k)  == StrToInt(val(k))
        int(k, old) == IF val(k) # "" THEN num(k).n ELSE old
        pieces  == SplitComma(val("addons"), "")
        s1 == IF val("name") # ""
              THEN [sp EXCEPT !.name = val("name"),
                              !.vm_name_prefix = val("name") \o "-node"]
              ELSE sp
        s2 == [s1 EXCEPT !.worker_count = int("workers", @),
                         !.control_plane_count = int("control_planes", @),
                         !.worker_spec.cores = int("worker_cores", @),
                         !.worker_spec.memory_mb = int("worker_memory", @),
                         !.control_plane_spec.cores = int("cp_cores", @),
                         !.control_plane_spec.memory_mb = int("cp_memory", @)]
        s3 == IF val("cni") # "" THEN [s2 EXCEPT !.cni_plugin = val("cni")] ELSE s2
        s4 == IF val("k8s_version") # ""
              THEN [s3 EXCEPT !.k8s_version_minor = val("k8s_version")] ELSE s3
        s5 == [s4 EXCEPT !.ip_start = int("ip_start", @)]
        s6 == IF val("addons") # ""
              THEN [s5 EXCEPT !.addons = [i \in 1..Len(pieces) |-> StrStrip(pieces[i])]]
              ELSE s5
    IN  IF \E k \in IntPrompts : val(k) # "" /\ ~num(k).ok
        THEN [err |-> "ValueError", spec |-> NoSpec]
        ELSE [err |-> "none", spec |-> s6]

\* The lines typed at the prompts.
EditAnswers ==
    [name : {"", "ml"}, workers : {"", " 3", "x"}, control_planes : {""},
     worker_cores : {""}, worker_memory : {""}, cp_cores : {""},
     cp_memory : {""}, cni : {"", "calico", "flannel"},
     k8s_version : {"", "1.30"}, ip_start : {""},
     addons : {"", "grafana, prometheus"}]

----------------------------------------------------------------------------
(* cli.py: cmd_create and cmd_preview *)

\* The backend is down, or answers a text, or answers the text of an object.
Backend(kind, text, object) == [kind |-> kind, text |-> text, object |-> object]

Down == Backend("down", <<>>, EmptyObject)

\* parse_intent as the commands call it: the spec or the exception.
resolve(b) ==
    CASE b.kind = "down" -> [err |-> "OllamaError", spec |-> NoSpec]
      [] b.kind = "text" ->
            LET r == parse_intent(Intent, NoContext, b.text)
            IN  [err |-> r.err, spec |-> r.spec]
      [] OTHER -> _json_to_spec(b.object)

ConfigCall(sp, proxmox_creds, dry) ==
    [spec |-> sp, creds |-> proxmox_creds, dry_run |-> dry]

\* A preview that writes the files
PreviewCall_persist(sp) == ConfigCall(sp, Null, FALSE)

\* write_configs(spec, dry_run=True)
PreviewCall(sp) == ConfigCall(sp, Null, TRUE)

CliIdle ==
    /\ kpc = "idle"
    /\ cmd = "create"
    /\ kargs = [intent |-> "", yes |-> FALSE, apply |-> FALSE,
                dry_run |-> FALSE, skip_packer |-> TRUE]
    /\ backend = Down
    /\ kspec = NoSpec
    /\ kerr = "not called"
    /\ out = <<>>
    /\ code = -1
    /\ configs = <<>>
    /\ pipelines = <<>>

CliInit ==
    /\ kpc = "start"
    /\ cmd \in {"create", "preview"}
    /\ kargs \in [intent : {"", Intent}, yes : BOOLEAN, apply : BOOLEAN,
                  dry_run : BOOLEAN, skip_packer : BOOLEAN]
    /\ cmd = "preview" => (~kargs.yes /\ ~kargs.apply /\ ~kargs.dry_run /\ kargs.skip_packer)
    /\ backend \in
          {Down}
          \cup {Backend("text", t, EmptyObject) :
                  t \in {<<WordCh>>, <<LB, WordCh, RB>>, <<LB, Member, RB>>}}
          \cup {Backend("object", <<>>,
                        [EmptyObject EXCEPT !["cni_plugin"] = c, !["cp_cores"] = n]) :
                  c \in {Absent, JStr("calico"), JStr("weave")}, n \in {Absent, Null}}
    /\ kspec = NoSpec
    /\ kerr = "not called"
    /\ out = <<>>
    /\ code = -1
    /\ configs = <<>>
    /\ pipelines = <<>>

\* sys.exit(status) after printing msgs; an exception nobody catches makes the
\* interpreter print the traceback and exit with status 1
Exit(msgs, status) ==
    /\ out' = out \o msgs
    /\ code' = status
    /\ kpc' = "exited"

\* cmd_create up to the first prompt after the resolution
CreateResolve ==
    /\ kpc = "start"
    /\ cmd = "create"
    /\ \E typed \in {"", " ", "dev cluster "} :
          LET asked  == kargs.intent = ""
              intent == IF asked THEN StrStrip(typed) ELSE kargs.intent
              banner == IF asked THEN <<"BANNER">> ELSE <<>>
              r      == resolve(backend)
          IN  /\ asked \/ typed = ""
              /\ IF intent = ""
                 THEN /\ out' = out \o banner \o <<"No intent provided. Exiting.">>
                      /\ code' = 1
                      /\ kpc' = "exited"
                      /\ UNCHANGED <<kspec, kerr>>
                 ELSE /\ kerr' = r.err
                      /\ IF r.err = "OllamaError"
                         THEN /\ out' = out \o banner \o <<"Error">>
                              /\ code' = 1
                              /\ kpc' = "exited"
                              /\ UNCHANGED kspec
                         ELSE IF r.err # "none"
                         THEN /\ out' = out \o banner \o <<"Traceback">>
                              /\ code' = 1
                              /\ kpc' = "exited"
                              /\ UNCHANGED kspec
                         ELSE /\ out' = out \o banner \o <<"interpretation">>
                              /\ kspec' = r.spec
                              /\ kpc' = IF kargs.yes THEN "generate" ELSE "confirm"
                              /\ UNCHANGED code
    /\ UNCHANGED <<cmd, kargs, backend, configs, pipelines>>
    /\ UNCHANGED <<pvars, rvars, xvars, dvars, cvars>>

\* cmd_create: Proceed with this configuration? [y/N/edit]
Confirm ==
    /\ kpc = "confirm"
    /\ \E answer \in {"y", " Yes ", "n", "", "edit"} :
          LET confirm == Lower(StrStrip(answer))
          IN  IF confirm = "edit"
              THEN \E ans \in EditAnswers :
                      LET e == _interactive_edit(kspec, ans)
                      IN  IF e.err # "none"
                          THEN Exit(<<"Traceback">>, 1) /\ UNCHANGED kspec
                          ELSE /\ kspec' = e.spec
                               /\ out' = Append(out, "summary")
                               /\ kpc' = "confirm2"
                               /\ UNCHANGED code
              ELSE IF confirm \in {"y", "yes"}
              THEN kpc' = "generate" /\ UNCHANGED <<kspec, out, code>>
              ELSE Exit(<<"Aborted.">>, 0) /\ UNCHANGED kspec
    /\ UNCHANGED <<cmd, kargs, backend, kerr, configs, pipelines>>
    /\ UNCHANGED <<pvars, rvars, xvars, dvars, cvars>>

\* cmd_create: Proceed? [y/N]
Confirm2 ==
    /\ kpc = "confirm2"
    /\ \E answer \in {"Y", "n", "edit"} :
          IF Lower(StrStrip(answer)) \in {"y", "yes"}
          THEN kpc' = "generate" /\ UNCHANGED <<out, code>>
          ELSE Exit(<<"Aborted.">>, 0)
    /\ UNCHANGED <<cmd, kargs, backend, kspec, kerr, configs, pipelines>>
    /\ UNCHANGED <<pvars, rvars, xvars, dvars, cvars>>

\* cmd_create: the credentials and write_configs
Generate ==
    /\ kpc = "generate"
    /\ \E e \in {[k \in CredKeys |-> Null], [k \in CredKeys |-> JStr("E")]} :
          LET proxmox_creds == _resolve_proxmox_creds([k \in CredKeys |-> Null], e, NoFile)
          IN  configs' = Append(configs, ConfigCall(kspec, proxmox_creds, kargs.dry_run))
    /\ IF kargs.apply
       THEN /\ out' = out \o <<"Written", "Starting provisioning pipeline...">>
            /\ kpc' = "apply"
            /\ UNCHANGED code
       ELSE Exit(<<"Written", "Configuration files generated.">>, 0)
    /\ UNCHANGED <<cmd, kargs, backend, kspec, kerr, pipelines>>
    /\ UNCHANGED <<pvars, rvars, xvars, dvars, cvars>>

\* cmd_create: run_pipeline and print_results
Apply ==
    /\ kpc = "apply"
    /\ pipelines' = Append(pipelines,
                           [spec |-> kspec, skip_packer |-> kargs.skip_packer,
                            auto_approve |-> kargs.yes, dry_run |-> kargs.dry_run])
    /\ Exit(<<"results">>, 0)
    /\ UNCHANGED <<cmd, kargs, backend, kspec, kerr, configs>>
    /\ UNCHANGED <<pvars, rvars, xvars, dvars, cvars>>

\* cmd_preview
CmdPreview ==
    /\ kpc = "start"
    /\ cmd = "preview"
    /\ LET r == resolve(backend)
       IN  IF kargs.intent = ""
           THEN /\ Exit(<<"Please provide an intent to preview.">>, 1)
                /\ UNCHANGED <<kspec, kerr, configs>>
           ELSE /\ kerr' = r.err
                /\ IF r.err = "OllamaError"
                   THEN Exit(<<"Error">>, 1) /\ UNCHANGED <<kspec, configs>>
                   ELSE IF r.err # "none"
                   THEN Exit(<<"Traceback">>, 1) /\ UNCHANGED <<kspec, configs>>
                   ELSE /\ kspec' = r.spec
                        /\ configs' = Append(configs, PreviewCall(r.spec))
                        /\ Exit(<<"interpretation", "files">>, 0)
    /\ UNCHANGED <<cmd, kargs, backend, pipelines>>
    /\ UNCHANGED <<pvars, rvars, xvars, dvars, cvars>>

CliNext ==
    \/ CreateResolve
    \/ Confirm
    \/ Confirm2
    \/ Generate
    \/ Apply
    \/ CmdPreview

----------------------------------------------------------------------------
(* Specifications *)

\* run_pipeline on every combination of its arguments
InitPipeline == PipelineInit /\ ResolveIdle /\ ExtractIdle /\ DiscoverIdle /\ CredsIdle /\ CliIdle
SpecPipeline == InitPipeline /\ [][PipelineNext]_vars

\* _json_to_spec on every backend object
InitResolve == PipelineIdle /\ ResolveInit /\ ExtractIdle /\ DiscoverIdle /\ CredsIdle /\ CliIdle
SpecResolve == InitResolve /\ [][ResolveNext]_vars

\* parse_intent on every reply
InitExtract == PipelineIdle /\ ResolveIdle /\ ExtractInit /\ DiscoverIdle /\ CredsIdle /\ CliIdle
SpecExtract == InitExtract /\ [][ExtractNext]_vars

\* discover on every outcome of its queries
InitDiscover == PipelineIdle /\ ResolveIdle /\ ExtractIdle /\ DiscoverInit /\ CredsIdle /\ CliIdle
SpecDiscover == InitDiscover /\ [][DiscoverNext]_vars

\* _gather_credentials on every combination of its sources
InitCreds == PipelineIdle /\ ResolveIdle /\ ExtractIdle /\ DiscoverIdle /\ CredsInit /\ CliIdle
SpecCreds == InitCreds /\ [][_gather_credentials]_vars

\* the two commands on every combination of arguments, answers and backend
InitCli ==
    /\ PipelineIdle /\ ResolveIdle /\ ExtractIdle /\ DiscoverIdle /\ CredsIdle
    /\ CliInit
SpecCli == InitCli /\ [][CliNext]_vars

Init == InitPipeline \/ InitResolve \/ InitExtract \/ InitDiscover \/ InitCreds
        \/ InitCli
Next == PipelineNext \/ ResolveNext \/ ExtractNext \/ DiscoverNext \/ _gather_credentials
        \/ CliNext
Spec == Init /\ [][Next]_vars

----------------------------------------------------------------------------
(* Properties of run_pipeline (checked under SpecPipeline) *)

Last(q) == q[Len(q)]

\* The stage an external effect belongs to.
EventStage(e) ==
    CASE e = "packer build"                -> "packer"
      [] e = "sleep 60"                    -> "wait"
      [] e = "ansible-playbook site.yml"   -> "ansible"
      [] e = "ansible-playbook addons.yml" -> "addons"
      [] OTHER                             -> "terraform"

StagesOf(rs) == [i \in 1..Len(rs) |-> rs[i].stage]

\* The stages of a run that nothing stops, as the results name them.
RealOrder ==
    (IF skip_packer THEN <<>> ELSE <<"packer">>) \o <<"terraform", "ansible">>
    \o (IF addons # <<>> THEN <<"addons">> ELSE <<>>)

DryOrder ==
    (IF skip_packer THEN <<>> ELSE <<"packer">>)
    \o <<"terraform", "terraform", "ansible">>
    \o (IF addons # <<>> THEN <<"addons">> ELSE <<>>)

\* C1: in a non-dry-run run_pipeline a failed stage ends the run: the list
\* holds the results of the stages attempted so far in order, every entry
\* but the last is successful, and once the last entry is a failure the run
\* is over and the last effect attempted is that of the failed stage (no
\* later stage, no boot wait).
C1_FailureHalts ==
    ~dry_run =>
        /\ \A i \in 1..(Len(results) - 1) : results[i].success
        /\ Len(results) <= Len(RealOrder)
        /\ StagesOf(results) = SubSeq(RealOrder, 1, Len(results))
        /\ (results # <<>> /\ ~Last(results).success) =>
               /\ pc = "done"
               /\ events # <<>>
               /\ EventStage(Last(events)) = Last(results).stage

\* C1 witness: packer succeeded, terraform (the 2nd stage) failed, the run
\* returned exactly two entries.
C1_Witness ==
    /\ ~dry_run /\ ~skip_packer /\ pc = "done"
    /\ Len(results) = 2
    /\ results[1].success /\ ~results[2].success
    /\ results[2].stage = "terraform"

\* C2: a dry-run run_pipeline never stops early: the returned list has an
\* entry for every stage of the sequence (packer when not skipped, terraform,
\* the boot-wait placeholder, ansible, addons when spec.addons is non-empty),
\* each successful with duration 0.
C2_DryRunComplete ==
    dry_run =>
        /\ \A i \in 1..Len(results) :
              results[i].success /\ results[i].duration_s = 0
        /\ pc = "done" =>
              /\ StagesOf(results) = DryOrder
              /\ \E i \in 1..Len(results) :
                    results[i].message = "[DRY RUN] Would wait 60s for VMs to boot"

\* C2 witness: a finished dry run with packer and add-ons: five entries.
C2_Witness ==
    /\ dry_run /\ ~skip_packer /\ addons # <<>> /\ pc = "done"
    /\ Len(results) = 5

----------------------------------------------------------------------------
(* Properties of _json_to_spec (checked under SpecResolve) *)

NumericKeySet == {NumericKeys[i] : i \in 1..Len(NumericKeys)}

\* The field of a ClusterSpec that a numeric key of the object populates.
SpecField(sp, key) ==
    CASE key = "worker_count"        -> sp.worker_count
      [] key = "control_plane_count" -> sp.control_plane_count
      [] key = "worker_cores"        -> sp.worker_spec.cores
      [] key = "worker_memory_mb"    -> sp.worker_spec.memory_mb
      [] key = "cp_cores"            -> sp.control_plane_spec.cores
      [] key = "cp_memory_mb"        -> sp.control_plane_spec.memory_mb
      [] key = "ip_start"            -> sp.ip_start

\* The defaults the specification lists.
SpecDefault(key) ==
    CASE key = "worker_count"        -> 2
      [] key = "control_plane_count" -> 1
      [] key = "worker_cores"        -> 2
      [] key = "worker_memory_mb"    -> 2048
      [] key = "cp_cores"            -> 2
      [] key = "cp_memory_mb"        -> 2048
      [] key = "ip_start"            -> 201

\* The hard floor of the control-plane fields (none for the others).
Floored(key, v) ==
    CASE key = "cp_cores"     -> IF v < 2 THEN 2 ELSE v
      [] key = "cp_memory_mb" -> IF v < 2048 THEN 2048 ELSE v
      [] OTHER                -> v

NoNulls == \A key \in NumericKeySet : data[key].k \in {"absent", "int"}

\* C3 as stated: every omitted numeric field holds its default and every
\* supplied one holds the supplied integer.
C3_SuppliedKept ==
    (rpc # "call" /\ NoNulls) =>
        /\ rpc = "returned"
        /\ \A key \in NumericKeySet :
              /\ SpecField(spec, key) \in Int
              /\ data[key].k = "absent" => SpecField(spec, key) = SpecDefault(key)
              /\ data[key].k = "int" => SpecField(spec, key) = data[key].n

\* C3 (amended): for every backend object whose numeric fields are each
\* omitted or an integer, _json_to_spec returns a ClusterSpec in which every
\* omitted field holds its default and every supplied field holds the
\* supplied integer, raised to the floor (2 / 2048) for cp_cores and
\* cp_memory_mb; every numeric field is an integer.
C3_DefaultsAndFloor ==
    (rpc # "call" /\ NoNulls) =>
        /\ rpc = "returned"
        /\ \A key \in NumericKeySet :
              /\ SpecField(spec, key) \in Int
              /\ data[key].k = "absent" => SpecField(spec, key) = SpecDefault(key)
              /\ data[key].k = "int" =>
                    SpecField(spec, key) = Floored(key, data[key].n)

\* C3 witness: an object that omits some fields (cp_memory_mb, ip_start) and
\* supplies others, cp_cores below the floor.
C3_Witness ==
    /\ rpc = "returned"
    /\ data["cp_memory_mb"] = Absent /\ data["ip_start"] = Absent
    /\ data["worker_count"] = JInt(0) /\ data["cp_cores"] = JInt(1)
    /\ spec.control_plane_spec.memory_mb = 2048 /\ spec.worker_count = 0

\* C4: the resolved control-plane cores / memory are never below 2 / 2048,
\* whatever the backend supplied, and a supplied value at or above the floor
\* is kept.
C4_ControlPlaneFloor ==
    rpc = "returned" =>
        /\ spec.control_plane_spec.cores >= 2
        /\ spec.control_plane_spec.memory_mb >= 2048
        /\ (data["cp_cores"].k = "int" /\ data["cp_cores"].n >= 2) =>
              spec.control_plane_spec.cores = data["cp_cores"].n
        /\ (data["cp_memory_mb"].k = "int" /\ data["cp_memory_mb"].n >= 2048) =>
              spec.control_plane_spec.memory_mb = data["cp_memory_mb"].n

\* C4 witness: cores supplied below the floor, memory supplied above it.
C4_Witness ==
    /\ rpc = "returned"
    /\ data["cp_cores"] = JInt(1) /\ data["cp_memory_mb"] = JInt(8192)
    /\ spec.control_plane_spec.cores = 2
    /\ spec.control_plane_spec.memory_mb = 8192

\* C5: a numeric field that is present but null is treated like a missing
\* one: resolution does not fail and the field holds its default.
C5_NullAsMissing ==
    rpc # "call" =>
        /\ rpc = "returned"
        /\ \A key \in NumericKeySet :
              data[key].k = "null" => SpecField(spec, key) = SpecDefault(key)

\* C8: control_plane_ips is the block of control_plane_count consecutive
\* addresses from ip_start, worker_ips the block of worker_count addresses
\* from ip_start + control_plane_count, the blocks are disjoint and their
\* lengths add up to control_plane_count + worker_count = total_nodes.
Addr(sp, n) == sp.ip_prefix \o ToString(n)

Elems(q) == {q[i] : i \in 1..Len(q)}

C8_IpBlocks ==
    rpc = "returned" =>
        LET cp == control_plane_ips(spec)
            w  == worker_ips(spec)
        IN  /\ Len(cp) = spec.control_plane_count
            /\ Len(w) = spec.worker_count
            /\ \A i \in 1..Len(cp) : cp[i] = Addr(spec, spec.ip_start + i - 1)
            /\ \A i \in 1..Len(w) :
                  w[i] = Addr(spec, spec.ip_start + spec.control_plane_count + i - 1)
            /\ Elems(cp) \cap Elems(w) = {}
            /\ Len(cp) + Len(w) = spec.control_plane_count + spec.worker_count
            /\ Len(cp) + Len(w) = total_nodes(spec)

\* C9: every resolved ClusterSpec has control_plane_count >= 0 and
\* worker_count >= 0.
C9_CountsNonNegative ==
    rpc = "returned" =>
        spec.control_plane_count >= 0 /\ spec.worker_count >= 0

\* C10: in the resolved spec cni_plugin = "calico" implies pod_network_cidr =
\* "192.168.0.0/16"; any other plugin, or none supplied, keeps the model
\* default "10.244.0.0/16".
C10_CalicoCidr ==
    rpc = "returned" =>
        /\ spec.cni_plugin = "calico" => spec.pod_network_cidr = "192.168.0.0/16"
        /\ spec.cni_plugin # "calico" => spec.pod_network_cidr = "10.244.0.0/16"
        /\ data["cni_plugin"] = JStr("calico") => spec.cni_plugin = "calico"
        /\ data["cni_plugin"] # JStr("calico") => spec.pod_network_cidr = "10.244.0.0/16"

\* C10 witness: the backend asked for calico.
C10_Witness ==
    /\ rpc = "returned"
    /\ data["cni_plugin"] = JStr("calico")
    /\ spec.pod_network_cidr = "192.168.0.0/16"

\* C11: after resolution cni_plugin is one of flannel, calico, cilium: a
\* recognized backend value passes through, an unrecognized or absent one
\* leaves the default flannel.
RecognizedCni == {"flannel", "calico", "cilium"}

C11_CniRecognized ==
    rpc = "returned" =>
        /\ spec.cni_plugin \in RecognizedCni
        /\ (data["cni_plugin"].k = "str" /\ data["cni_plugin"].s \in RecognizedCni) =>
              spec.cni_plugin = data["cni_plugin"].s
        /\ ~(data["cni_plugin"].k = "str" /\ data["cni_plugin"].s \in RecognizedCni) =>
              spec.cni_plugin = "flannel"

\* C13: a k8s_version the backend supplies (a non-empty string) becomes
\* k8s_version_minor, and k8s_version_full is its table entry or, for a minor
\* outside the table, minor + ".0-1.1"; without one (absent, null or empty)
\* both fields keep the defaults 1.31 / 1.31.4-1.1.
VersionSupplied == data["k8s_version"].k = "str" /\ data["k8s_version"].s # ""

C13_VersionResolved ==
    rpc = "returned" =>
        LET v == data["k8s_version"].s IN
        /\ VersionSupplied =>
              /\ spec.k8s_version_minor = v
              /\ v = "1.31" => spec.k8s_version_full = "1.31.4-1.1"
              /\ v = "1.30" => spec.k8s_version_full = "1.30.8-1.1"
              /\ v = "1.29" => spec.k8s_version_full = "1.29.12-1.1"
              /\ v = "1.28" => spec.k8s_version_full = "1.28.15-1.1"
              /\ v \notin {"1.31", "1.30", "1.29", "1.28"} =>
                    spec.k8s_version_full = v \o ".0-1.1"
        /\ ~VersionSupplied =>
              /\ spec.k8s_version_minor = "1.31"
              /\ spec.k8s_version_full = "1.31.4-1.1"

\* C13 witness: a minor outside the table.
C13_Witness ==
    /\ rpc = "returned"
    /\ data["k8s_version"] = JStr("1.99")
    /\ spec.k8s_version_full = "1.99.0-1.1"

\* C14: a non-empty addons list of the backend is taken verbatim (same
\* elements, same order, duplicates and unrecognized identifiers kept); an
\* absent or empty one leaves the empty list.
C14_AddonsVerbatim ==
    rpc = "returned" =>
        /\ (data["addons"].k = "list" /\ data["addons"].l # <<>>) =>
              spec.addons = data["addons"].l
        /\ (data["addons"].k = "absent" \/ data["addons"].l = <<>>) =>
              spec.addons = <<>>

\* C14 witness: a list with a repeated identifier.
C14_Witness ==
    /\ rpc = "returned"
    /\ Len(data["addons"].l) >= 2
    /\ data["addons"].l[1] = data["addons"].l[2]
    /\ spec.addons = data["addons"].l

----------------------------------------------------------------------------
(* Properties of _extract_json_from_response and parse_intent (checked     *)
(* under SpecExtract)                                                      *)

Positions(t, c) == {i \in 1..Len(t) : t[i] = c}

\* The members written in a text, in order.
MembersIn(t) == Without(t, Chars \ Members)

\* The reply holds an object: the text from its first "{" to its last "}"
\* is "{", members separated by ",", "}".
HoldsObject(t) ==
    /\ Positions(t, LB) # {}
    /\ Positions(t, RB) # {}
    /\ LET i == Least(Positions(t, LB))
           j == Most(Positions(t, RB))
           inner == Without(SubSeq(t, i + 1, j - 1), Whitespace)
       IN  /\ i < j
           /\ \A k \in 1..Len(inner) :
                 IF k % 2 = 1 THEN inner[k] \in Members ELSE inner[k] = CM
           /\ (inner = <<>> \/ Len(inner) % 2 = 1)

\* parse_intent got a reply from the backend and left.
Answered == xpc # "call" /\ xdata # NoData

\* C6: when the reply holds no "{" ... "}" span, or the span is not an
\* object, parse_intent raises the malformed-response error (ValueError or
\* its subclass JSONDecodeError), which is not the service-unavailable error
\* (OllamaError), and returns no ClusterSpec.
C6_MalformedRaises ==
    (Answered /\ ~HoldsObject(reply)) =>
        /\ xpc = "raised"
        /\ xerr \in {"ValueError", "JSONDecodeError"}
        /\ xerr # "OllamaError"
        /\ xspec = NoSpec

\* C6 witness: a fenced reply with a span that is not an object.
C6_Witness ==
    /\ xpc = "raised" /\ xerr = "JSONDecodeError"
    /\ reply # body /\ Positions(reply, LB) # {} /\ Positions(reply, RB) # {}
    /\ xspec = NoSpec

\* C7: for a reply that is an object wrapped in fence markers the extraction
\* returns the object of the unwrapped reply; for every reply, what is
\* returned is the object written from the first "{" to the last "}".
C7_FenceTransparent ==
    Answered =>
        /\ (reply # body /\ IsObjectText(body)) =>
              xdata = [err |-> "none", members |-> MembersIn(body)]
        /\ xdata.err = "none" =>
              /\ HoldsObject(reply)
              /\ xdata.members =
                    MembersIn(SubSeq(reply, Least(Positions(reply, LB)),
                                     Most(Positions(reply, RB))))
        /\ HoldsObject(reply) => xdata.err = "none"

\* C7 witness: an object with a member, fenced with a language tag, parsed.
C7_Witness ==
    /\ xpc = "returned"
    /\ IsObjectText(body) /\ MembersIn(body) # <<>>
    /\ Len(reply) > Len(body) + 6
    /\ reply[4] = WordCh
    /\ xdata.members = MembersIn(body)


\* C17: the resolved spec depends on the backend's reply only: resolving the
\* same reply with any ResourceContext or with none gives the same spec (or
\* the same failure), and an ip_start or core request is accepted unchanged
\* when the context reports the address in use or fewer cores.
C17_ContextIgnored ==
    Answered =>
        /\ \A c \in Contexts :
              /\ parse_intent(Intent, c, reply).spec = xspec
              /\ parse_intent(Intent, c, reply).err = xerr
        /\ (xpc = "returned" /\ \E i \in 1..Len(xdata.members) : xdata.members[i] = MemberIp) =>
              xspec.ip_start = 205
        /\ xpc = "returned" => xspec.worker_spec.cores = 2

\* C17 witness: the backend asked for ip_start 205 although the context
\* lists 10.40.19.205 as in use and only one core.
C17_Witness ==
    /\ xpc = "returned"
    /\ xctx = BusyContext
    /\ \E i \in 1..Len(xctx.used_ips) : xctx.used_ips[i] = Addr(xspec, xspec.ip_start)
    /\ xspec.ip_start = 205
    /\ xspec.worker_spec.cores > xctx.resources.cpu_total
    /\ xmsg.environment = BusyContext

----------------------------------------------------------------------------
(* Properties of discover (checked under SpecDiscover) *)

Asked(path) == \E i \in 1..Len(queries) : queries[i].path = path

\* The entries of the guest list that are not templates.
Listed == SelectSeq(guest_list.data, LAMBDA e : Field(e.template, 0) # 1)

\* C15: a failure of the resource query and a failure of the guest-list query
\* are independent and not fatal: discover never raises, it sends both
\* queries, a failed query leaves its own field at its default (resources all
\* zero; existing_vms and used_ips empty), and the result of the other query
\* is kept.
C15_QueriesIndependent ==
    /\ dpc # "raised"
    /\ derr = "none"
    /\ dpc = "returned" =>
          /\ Asked("status") /\ Asked("qemu")
          /\ ctx.resources = IF node_status.ok
                             THEN _get_node_resources(node_status).val
                             ELSE NodeResources
          /\ ~guest_list.ok => ctx.existing_vms = <<>> /\ ctx.used_ips = <<>>
          /\ guest_list.ok =>
                /\ Len(ctx.existing_vms) = Len(Listed)
                /\ \A i \in 1..Len(Listed) :
                      ctx.existing_vms[i].vmid = Listed[i].vmid.n
                /\ ctx.used_ips = Extend(ctx.existing_vms)

\* C15 witness: the resource query failed, the guest list came back with a
\* guest that has an address, and discover returned.
C15_Witness ==
    /\ dpc = "returned"
    /\ ~node_status.ok
    /\ guest_list.ok
    /\ ctx.resources = NodeResources
    /\ ctx.used_ips # <<>>

\* C16: the address query is sent only for guests whose status is "running";
\* when it fails for a guest, the guest is still listed, with no addresses,
\* and the query is still sent for every later running guest.
C16_IpDiscoveryPerGuest ==
    /\ \A i \in 1..Len(queries) :
          queries[i].path = "agent" =>
             \E j \in 1..Len(guest_list.data) :
                /\ j < di
                /\ guest_list.data[j].vmid.n = queries[i].vmid
                /\ guest_list.data[j].status = JStr("running")
    /\ (dpc = "returned" /\ guest_list.ok) =>
          /\ Len(ctx.existing_vms) = Len(Listed)
          /\ \A j \in 1..Len(Listed) :
                /\ ctx.existing_vms[j].vmid = Listed[j].vmid.n
                /\ Listed[j].status = JStr("running") =>
                      /\ \E i \in 1..Len(queries) :
                            queries[i] = Request("agent", Listed[j].vmid.n)
                      /\ ctx.existing_vms[j].ips =
                            IF Listed[j].agent.ok
                            THEN _get_vm_ips(Listed[j].agent).val
                            ELSE <<>>
                /\ Listed[j].status # JStr("running") => ctx.existing_vms[j].ips = <<>>

\* C16 witness: two running guests, the agent of the first does not answer,
\* the second reports an address, and both are listed.
C16_Witness ==
    /\ dpc = "returned"
    /\ guest_list.ok
    /\ Len(ctx.existing_vms) = 2
    /\ ~guest_list.data[1].agent.ok
    /\ ctx.existing_vms[1].ips = <<>>
    /\ ctx.existing_vms[2].ips = <<"10.40.19.205">>
    /\ Asked("agent")

----------------------------------------------------------------------------
(* Properties of _gather_credentials (checked under SpecCreds) *)

Supplies(src) == \A k \in CredKeys : Truthy(src[k])

FileSupplies == tfvars.exists /\ \A k \in CredKeys : Search(CredVar[k], tfvars.lines) # Null

\* C19: credentials resolve as explicit arguments > environment > the values
\* of terraform.tfvars > absent: the file is used only when the arguments and
\* the environment do not supply the credentials, a value given explicitly or
\* by the environment is never replaced by a value of the file, and the result
\* is absent only when no source supplies all three values.
C19_CredentialPrecedence ==
    gpc = "returned" =>
        /\ creds # Null =>
              \A k \in CredKeys :
                 /\ Truthy(cli_args[k]) => creds[k] = cli_args[k]
                 /\ (~Truthy(cli_args[k]) /\ Truthy(environ[k])) => creds[k] = environ[k]
        /\ creds = Null =>
              ~Supplies(cli_args) /\ ~Supplies(environ) /\ ~FileSupplies

----------------------------------------------------------------------------
(* Properties of the commands (checked under SpecCli) *)

CniMatchesCidr(sp) ==
    sp.pod_network_cidr =
        IF sp.cni_plugin = "calico" THEN "192.168.0.0/16" ELSE "10.244.0.0/16"

\* C12: every spec handed to write_configs or to run_pipeline, after the
\* defaults, the resolver and any interactive edit, has pod_network_cidr
\* 192.168.0.0/16 when cni_plugin is calico and 10.244.0.0/16 otherwise.
C12_CniCidrLifecycle ==
    /\ \A i \in 1..Len(configs) : CniMatchesCidr(configs[i].spec)
    /\ \A i \in 1..Len(pipelines) : CniMatchesCidr(pipelines[i].spec)

\* C18: preview has no side effects: whatever the resolution gives, it calls
\* write_configs with dry_run = True only and never calls run_pipeline.
C18_PreviewNoEffects ==
    cmd = "preview" =>
        /\ pipelines = <<>>
        /\ \A i \in 1..Len(configs) : configs[i].dry_run
        /\ kpc \in {"start", "exited"}

\* C18 witness: a preview that resolved a spec and rendered the files.
C18_Witness ==
    /\ cmd = "preview"
    /\ kpc = "exited"
    /\ kerr = "none"
    /\ Len(configs) = 1
    /\ configs[1].spec = kspec
    /\ code = 0

\* C20: every error of the resolution is handled alike by create and preview:
\* a short diagnostic is printed, the exit status is not zero, and neither
\* write_configs nor run_pipeline is called.
C20_ResolutionErrorsHandled ==
    (kpc = "exited" /\ kerr \notin {"none", "not called"}) =>
        /\ Last(out) = "Error"
        /\ code # 0
        /\ configs = <<>>
        /\ pipelines = <<>>

----------------------------------------------------------------------------
(* The order of the effects of run_pipeline (checked under SpecPipeline) *)

\* The place of an effect in the order image-build, infra-apply (init, plan,
\* apply), boot wait, configuration-management, addon-installation.
EventRank(e) ==
    CASE e = "packer build"                -> 1
      [] e = "terraform init"              -> 2
      [] e = "terraform plan"              -> 3
      [] e = "terraform apply"             -> 4
      [] e = "sleep 60"                    -> 5
      [] e = "ansible-playbook site.yml"   -> 6
      [] e = "ansible-playbook addons.yml" -> 7
      [] OTHER                             -> 0

Happened(e) == \E i \in 1..Len(events) : events[i] = e

ResultOf(stage) == {results[i] : i \in {j \in 1..Len(results) : results[j].stage = stage}}

\* C21: in a non-dry-run run_pipeline the effects occur only in the order
\* image-build (only when skip_packer is false), infra-apply, the 60 s boot
\* wait, configuration-management, addon-installation, each at most once; the
\* boot wait happens exactly when infra-apply succeeded and before
\* configuration-management starts; addon-installation is attempted only when
\* spec.addons is non-empty and configuration-management succeeded.
C21_StageOrder ==
    ~dry_run =>
        /\ \A i \in 1..Len(events) : EventRank(events[i]) > 0
        /\ \A i, j \in 1..Len(events) :
              i < j => EventRank(events[i]) < EventRank(events[j])
        /\ Happened("packer build") => ~skip_packer
        /\ Happened("sleep 60") =>
              /\ Happened("terraform apply")
              /\ \E r \in ResultOf("terraform") : r.success
        /\ (\E r \in ResultOf("terraform") : r.success) =>
              (pc = "wait" \/ Happened("sleep 60"))
        /\ (pc = "ansible" \/ Happened("ansible-playbook site.yml")) =>
              Happened("sleep 60")
        /\ (pc = "addons" \/ ResultOf("addons") # {}
                \/ Happened("ansible-playbook addons.yml")) =>
              /\ addons # <<>>
              /\ \E r \in ResultOf("ansible") : r.success

\* C21 witness: a full run with image build and add-ons: the seven effects,
\* the boot wait between apply and the playbook.
C21_Witness ==
    /\ ~dry_run /\ ~skip_packer /\ pc = "done"
    /\ events = <<"packer build", "terraform init", "terraform plan",
                  "terraform apply", "sleep 60", "ansible-playbook site.yml",
                  "ansible-playbook addons.yml">>

----------------------------------------------------------------------------
(* The addresses of a resolved spec (checked under SpecResolve) *)

\* Every address of the spec is ip_prefix followed by an octet in 1..254 and
\* is not the gateway.
UsableAddresses(sp) ==
    \A a \in Elems(all_ips(sp)) :
        /\ \E n \in 1..254 : a = Addr(sp, n)
        /\ a # sp.ip_gateway

\* C22: in every ClusterSpec the resolution produces, and in every one the
\* create command hands on after an interactive edit, each address of
\* control_plane_ips and worker_ips has a last octet in 1..254 and none is
\* ip_gateway (10.40.19.254).
C22_AddressesUsable ==
    /\ rpc = "returned" => UsableAddresses(spec)
    /\ \A i \in 1..Len(configs) : UsableAddresses(configs[i].spec)

====
